---- MODULE Spec2Model ----
(***************************************************************************)
(* Model of the lieutenant command dispatcher (src/src/dispatcher.rs) and  *)
(* of the Exec parser combinator (src/src/command/exec.rs).                *)
(*                                                                         *)
(* Text is a tuple of one-character strings, so that Input.head(" ") and   *)
(* the checkers work on characters as the code does.                       *)
(***************************************************************************)
EXTENDS Integers, Sequences, FiniteSets, TLC

VARIABLES
    nodes,        \* CommandDispatcher.nodes : Slab<Node<C>>, a function NodeKey -> Node
    root,         \* CommandDispatcher.root  : NodeKey
    metas,        \* CommandDispatcher.metas : Vec<CommandMeta>
    regLog,       \* the register calls made so far, each with the Result it returned
    lastDispatch, \* the observable outcome of the most recent dispatch call
    exIn,         \* Exec: the parser, the handler and the cursor handed to Exec::parse
    exOut,        \* Exec: what Exec::parse returned and the cursor it left
    exCalls,      \* Exec: the handler invocations made by Command::call, in order
    orOut         \* Or: the last Or::parse call, its cursor before and after, its result

vars == <<nodes, root, metas, regLog, lastDispatch, exIn, exOut, exCalls, orOut>>

dispVars == <<nodes, root, metas, regLog, lastDispatch>>
execVars == <<exIn, exOut, exCalls>>
orVars == <<orOut>>

(***************************************************************************)
(* Bounds of the model.                                                    *)
(***************************************************************************)
MaxRegs == 2      \* register calls per behaviour
MaxCalls == 2     \* Command::call invocations per behaviour

(***************************************************************************)
(* Text.                                                                   *)
(***************************************************************************)
SP == " "
EmptyText == << >>

s_tp == <<"t", "p">>
s_here == <<"h", "e", "r", "e">>
s_Steve == <<"S", "t", "e", "v", "e">>
s_spawn == <<"s", "p", "a", "w", "n">>
s_foo == <<"f", "o", "o">>
s_bar == <<"b", "a", "r">>
s_baz == <<"b", "a", "z">>
s_123 == <<"1", "2", "3">>

Digits == {"0", "1", "2", "3", "4", "5", "6", "7", "8", "9"}

Words(a, b) == a \o <<SP>> \o b

t_tp_here == Words(s_tp, s_here)
t_tp_Steve_spawn == Words(s_tp, Words(s_Steve, s_spawn))
t_foo_bar == Words(s_foo, s_bar)
t_123_foo == Words(s_123, s_foo)

\* The command lines handed to dispatch and to Exec::parse.
Texts ==
    { EmptyText, s_tp, t_tp_here, t_tp_Steve_spawn, s_foo, t_foo_bar,
      s_123, t_123_foo, s_Steve }

(***************************************************************************)
(* Input: the cursor over the remaining text.                              *)
(***************************************************************************)
InputNew(command) == command

InputEmpty(input) == Len(input) = 0

\* Position of the first occurrence of sep in input, or Len(input) + 1.
RECURSIVE SepPos(_, _, _)
SepPos(input, sep, i) ==
    IF i > Len(input) THEN i
    ELSE IF input[i] = sep THEN i
    ELSE SepPos(input, sep, i + 1)

\* head(sep): the text up to, not including, the next sep; the cursor is not moved.
InputHead(input, sep) == SubSeq(input, 1, SepPos(input, sep, 1) - 1)

\* The cursor after a parser has consumed the next token and the separator after it.
InputAdvance(input, sep) == SubSeq(input, SepPos(input, sep, 1) + 1, Len(input))

(***************************************************************************)
(* Node kinds, checkers and handlers.                                      *)
(***************************************************************************)
NoExec == "none"                       \* Option::None of Node.exec / CommandNode.exec

RootKind == [t |-> "Root", v |-> EmptyText]
Literal(lit) == [t |-> "Literal", v |-> lit]
Parser(checker) == [t |-> "Parser", v |-> <<checker>>]

\* ArgumentChecker::satisfies(ctx, &mut input): whether the checker accepts the
\* next token, and the cursor it leaves. "word" accepts any non-empty token,
\* "int" a non-empty token of digits; both consume the token and one separator.
CheckerSatisfies(checker, input) ==
    LET tok == InputHead(input, SP)
        ok == CASE checker = "word" -> Len(tok) > 0
                [] checker = "int" ->
                       Len(tok) > 0 /\ \A i \in 1..Len(tok) : tok[i] \in Digits
    IN  [ok |-> ok, input |-> IF ok THEN InputAdvance(input, SP) ELSE input]

\* ArgumentChecker::equals(other): the same checker type.
CheckerEquals(this, other) == this = other

\* impl PartialEq<CommandNodeKind<C>> for NodeKind<C>
KindEqLiteralOnly(nk, ck) ==
    nk.t = "Literal" /\ ck.t = "Literal" /\ nk.v = ck.v

KindEq(nk, ck) ==
    CASE nk.t = "Literal" /\ ck.t = "Literal" -> nk.v = ck.v
      [] nk.t = "Parser" /\ ck.t = "Parser" -> CheckerEquals(nk.v[1], ck.v[1])
      [] OTHER -> FALSE

\* Node::default()
NodeDefault == [next |-> << >>, kind |-> RootKind, exec |-> NoExec]

\* impl From<CommandNodeKind<C>> for Node<C>
NodeFrom(ck) ==
    [next |-> << >>,
     kind |-> CASE ck.t = "Literal" -> Literal(ck.v)
                [] ck.t = "Parser" -> Parser(ck.v[1]),
     exec |-> NoExec]

\* Slab::insert: the arena never removes, so the key is the number of entries.
SlabInsert(ns, node) ==
    LET key == Cardinality(DOMAIN ns)
    IN  [key |-> key,
         nodes |-> [k \in (DOMAIN ns) \cup {key} |-> IF k = key THEN node ELSE ns[k]]]

(***************************************************************************)
(* Command trees handed to register: CommandNode { kind, exec, next }.     *)
(***************************************************************************)
CommandNode(kind, exec, next) == [kind |-> kind, exec |-> exec, next |-> next]

\* A chain of kinds whose handler is carried by a sub-tree of kind endKind under
\* the last kind of the chain (append_node attaches a tree node's handler to the
\* arena node the tree node is merged under).
RECURSIVE Chain(_, _, _)
Chain(kinds, exec, endKind) ==
    IF Len(kinds) = 0 THEN CommandNode(endKind, exec, << >>)
    ELSE CommandNode(Head(kinds), NoExec, <<Chain(Tail(kinds), exec, endKind)>>)

\* A chain of kinds whose last node itself carries the handler.
RECURSIVE ChainOnLast(_, _)
ChainOnLast(kinds, exec) ==
    IF Len(kinds) = 1 THEN CommandNode(Head(kinds), exec, << >>)
    ELSE CommandNode(Head(kinds), NoExec, <<ChainOnLast(Tail(kinds), exec)>>)

Command(meta, tree) == [meta |-> meta, tree |-> tree]

cmd_tp_player_dest ==
    Command("tp <player> <destination>",
            Chain(<<Literal(s_tp), Parser("word"), Parser("word")>>, "h_tp_player_dest",
                  Literal(s_spawn)))
cmd_tp_here ==
    Command("tp here", Chain(<<Literal(s_tp), Literal(s_here)>>, "h_tp_here", Parser("int")))
cmd_tp_player_dest_last ==
    Command("tp <player> <destination>",
            ChainOnLast(<<Literal(s_tp), Parser("word"), Parser("word")>>, "h_tp_player_dest"))
cmd_tp_here_last ==
    Command("tp here", ChainOnLast(<<Literal(s_tp), Literal(s_here)>>, "h_tp_here"))
cmd_foo_1 == Command("foo", Chain(<<Literal(s_foo)>>, "h_foo_1", Literal(s_bar)))
cmd_foo_2 == Command("foo", Chain(<<Literal(s_foo)>>, "h_foo_2", Literal(s_bar)))
cmd_foo_last == Command("foo", ChainOnLast(<<Literal(s_foo)>>, "h_foo_last"))
cmd_foo_bar ==
    Command("foo bar", Chain(<<Literal(s_foo), Literal(s_bar)>>, "h_foo_bar", Parser("word")))
cmd_foo_baz ==
    Command("foo baz", Chain(<<Literal(s_foo), Literal(s_baz)>>, "h_foo_baz", Parser("word")))
\* The same literal chains as bare trees, carrying no handler at all.
cmd_chain_foo_bar ==
    Command("foo bar", CommandNode(Literal(s_foo), NoExec,
                                   <<CommandNode(Literal(s_bar), NoExec, << >>)>>))
cmd_chain_foo_baz ==
    Command("foo baz", CommandNode(Literal(s_foo), NoExec,
                                   <<CommandNode(Literal(s_baz), NoExec, << >>)>>))
cmd_lit_123 == Command("123", Chain(<<Literal(s_123)>>, "h_lit_123", Parser("int")))
cmd_int == Command("<int>", Chain(<<Parser("int")>>, "h_int", Literal(s_foo)))
cmd_word == Command("<word>", Chain(<<Parser("word")>>, "h_word", Literal(s_bar)))
\* A tree with two handler-carrying sub-trees under one node.
cmd_word_twice ==
    Command("<word> x|y",
            CommandNode(Parser("word"), NoExec,
                        <<CommandNode(Literal(s_foo), "h_twice_1", << >>),
                          CommandNode(Literal(s_bar), "h_twice_2", << >>)>>))

\* A tree with two sub-trees of equal kind under one node.
cmd_same_kind ==
    Command("foo <word> | foo <word> baz",
            CommandNode(Literal(s_foo), NoExec,
                        <<CommandNode(Parser("word"), NoExec, << >>),
                          CommandNode(Parser("word"), NoExec,
                                      <<CommandNode(Literal(s_baz), "h_same", << >>)>>)>>))
\* A tree with three sub-trees under one node: the second fails on its own (the
\* first has given the node a handler), the third carries no handler.
cmd_three ==
    Command("<int> x|y|z",
            CommandNode(Parser("int"), NoExec,
                        <<CommandNode(Literal(s_foo), "h_three_1", << >>),
                          CommandNode(Literal(s_bar), "h_three_2", << >>),
                          CommandNode(Literal(s_baz), NoExec, << >>)>>))

Commands ==
    { cmd_tp_player_dest, cmd_tp_here, cmd_tp_player_dest_last, cmd_tp_here_last,
      cmd_foo_1, cmd_foo_2, cmd_foo_last, cmd_foo_bar, cmd_foo_baz,
      cmd_chain_foo_bar, cmd_chain_foo_baz,
      cmd_lit_123, cmd_int, cmd_word, cmd_word_twice, cmd_same_kind, cmd_three }

(***************************************************************************)
(* Registration: CommandDispatcher::register and ::append_node.            *)
(***************************************************************************)
Ok == "Ok"
OverlappingCommands == "OverlappingCommands"
ExecutableRoot == "ExecutableRoot"

\* append_node, the handler part: attach cmd_current.exec to dispatcher_current.
AttachExecNoRootCheck(ns, dispatcher_current, cmd_current) ==
    IF cmd_current.exec # NoExec
    THEN IF ns[dispatcher_current].exec # NoExec
         THEN [nodes |-> ns, res |-> OverlappingCommands]
         ELSE [nodes |-> [ns EXCEPT ![dispatcher_current].exec = cmd_current.exec],
               res |-> Ok]
    ELSE [nodes |-> ns, res |-> Ok]

AttachExecOverwrites(ns, dispatcher_current, cmd_current) ==
    IF cmd_current.exec # NoExec
    THEN IF ns[dispatcher_current].kind = RootKind
         THEN [nodes |-> ns, res |-> ExecutableRoot]
         ELSE [nodes |-> [ns EXCEPT ![dispatcher_current].exec = cmd_current.exec],
               res |-> IF ns[dispatcher_current].exec # NoExec
                       THEN OverlappingCommands ELSE Ok]
    ELSE [nodes |-> ns, res |-> Ok]

AttachExec(ns, dispatcher_current, cmd_current) ==
    IF cmd_current.exec # NoExec
    THEN IF ns[dispatcher_current].kind = RootKind
         THEN [nodes |-> ns, res |-> ExecutableRoot]
         ELSE IF ns[dispatcher_current].exec # NoExec
              THEN [nodes |-> ns, res |-> OverlappingCommands]
              ELSE [nodes |-> [ns EXCEPT ![dispatcher_current].exec = cmd_current.exec],
                    res |-> Ok]
    ELSE [nodes |-> ns, res |-> Ok]

\* .next.iter().find(|key| nodes[key].kind == cmd_current_kind): the position in
\* dispatcher_current's children of the first child of equal kind, or 0.
RECURSIVE FindFrom(_, _, _, _)
FindFrom(ns, children, ck, i) ==
    IF i > Len(children) THEN 0
    ELSE IF KindEq(ns[children[i]].kind, ck) THEN i
    ELSE FindFrom(ns, children, ck, i + 1)

\* append_node, the child part: the found child, or a new node appended to the
\* children of dispatcher_current.
FindOrCreateAlwaysCreate(ns, dispatcher_current, ck) ==
    LET ins == SlabInsert(ns, NodeFrom(ck))
    IN  [found |-> ins.key,
         nodes |-> [ins.nodes EXCEPT ![dispatcher_current].next = Append(@, ins.key)]]

FindOrCreatePrepends(ns, dispatcher_current, ck) ==
    LET children == ns[dispatcher_current].next
        pos == FindFrom(ns, children, ck, 1)
    IN  IF pos # 0
        THEN [found |-> children[pos], nodes |-> ns]
        ELSE LET ins == SlabInsert(ns, NodeFrom(ck))
             IN  [found |-> ins.key,
                  nodes |-> [ins.nodes EXCEPT
                                ![dispatcher_current].next = <<ins.key>> \o @]]

\* On a miss under dispatcher_current, reuse a node of equal kind anywhere in the arena.
FindOrCreateSharesAcross(ns, dispatcher_current, ck) ==
    LET children == ns[dispatcher_current].next
        pos == FindFrom(ns, children, ck, 1)
        same == {k \in DOMAIN ns : KindEq(ns[k].kind, ck) /\ k > dispatcher_current}
    IN  IF pos # 0
        THEN [found |-> children[pos], nodes |-> ns]
        ELSE IF same # {}
             THEN LET k == CHOOSE x \in same : \A y \in same : x <= y
                  IN  [found |-> k,
                       nodes |-> [ns EXCEPT ![dispatcher_current].next = Append(@, k)]]
             ELSE LET ins == SlabInsert(ns, NodeFrom(ck))
                  IN  [found |-> ins.key,
                       nodes |-> [ins.nodes EXCEPT
                                     ![dispatcher_current].next = Append(@, ins.key)]]

FindOrCreate(ns, dispatcher_current, ck) ==
    LET children == ns[dispatcher_current].next
        pos == FindFrom(ns, children, ck, 1)
    IN  IF pos # 0
        THEN [found |-> children[pos], nodes |-> ns]
        ELSE LET ins == SlabInsert(ns, NodeFrom(ck))
             IN  [found |-> ins.key,
                  nodes |-> [ins.nodes EXCEPT
                                ![dispatcher_current].next = Append(@, ins.key)]]

RECURSIVE AppendNode(_, _, _)
RECURSIVE AppendNext(_, _, _, _)

RECURSIVE AppendNextContinues(_, _, _, _)
AppendNextContinues(ns, found, next, i) ==
    IF i > Len(next) THEN [nodes |-> ns, res |-> Ok]
    ELSE LET r == AppendNode(ns, found, next[i])
             rest == AppendNextContinues(r.nodes, found, next, i + 1)
         IN  [nodes |-> rest.nodes, res |-> IF r.res # Ok THEN r.res ELSE rest.res]

\* cmd_current.next.into_iter().map(|next| append_node(found, next)).collect()?:
\* the sub-trees in order, stopping at the first error.
AppendNext(ns, found, next, i) ==
    IF i > Len(next) THEN [nodes |-> ns, res |-> Ok]
    ELSE LET r == AppendNode(ns, found, next[i])
         IN  IF r.res # Ok THEN r ELSE AppendNext(r.nodes, found, next, i + 1)

AppendNode(ns, dispatcher_current, cmd_current) ==
    LET a == AttachExec(ns, dispatcher_current, cmd_current)
    IN  IF a.res # Ok THEN a
        ELSE LET f == FindOrCreate(a.nodes, dispatcher_current, cmd_current.kind)
             IN  AppendNext(f.nodes, f.found, cmd_current.next, 1)

\* register: push the metadata, then merge the tree under the root.
RegisterOp(ns, rt, ms, command) ==
    LET r == AppendNode(ns, rt, command.tree)
    IN  [nodes |-> r.nodes, metas |-> Append(ms, command.meta), res |-> r.res]

\* command_meta(): the metadata list, in order.
CommandMeta(ms) == ms

(***************************************************************************)
(* Dispatch: CommandDispatcher::dispatch.                                  *)
(***************************************************************************)
\* The match of one child kind against a clone of the cursor: whether the kind
\* is satisfied, and the clone afterwards. A Root kind is unreachable!() here.
SatisfiesLiteralConsumes(kind, input) ==
    CASE kind.t = "Parser" -> CheckerSatisfies(kind.v[1], input)
      [] kind.t = "Literal" ->
             [ok |-> kind.v = InputHead(input, SP),
              input |-> IF kind.v = InputHead(input, SP)
                        THEN InputAdvance(input, SP) ELSE input]

Satisfies(kind, input) ==
    CASE kind.t = "Parser" -> CheckerSatisfies(kind.v[1], input)
      [] kind.t = "Literal" -> [ok |-> kind.v = InputHead(input, SP), input |-> input]

\* node.next.iter().filter_map(..).next(): the first child, in insertion order,
\* whose kind is satisfied, with the clone its match left.
RECURSIVE FirstMatchFrom(_, _, _, _)
FirstMatchFrom(ns, children, input, i) ==
    IF i > Len(children) THEN [found |-> FALSE, pos |-> 0, next |-> 0, input |-> input]
    ELSE LET m == Satisfies(ns[children[i]].kind, input)
         IN  IF m.ok
             THEN [found |-> TRUE, pos |-> i, next |-> children[i], input |-> m.input]
             ELSE FirstMatchFrom(ns, children, input, i + 1)

RECURSIVE LastMatchFrom(_, _, _, _)
LastMatchFrom(ns, children, input, i) ==
    IF i < 1 THEN [found |-> FALSE, pos |-> 0, next |-> 0, input |-> input]
    ELSE LET m == Satisfies(ns[children[i]].kind, input)
         IN  IF m.ok
             THEN [found |-> TRUE, pos |-> i, next |-> children[i], input |-> m.input]
             ELSE LastMatchFrom(ns, children, input, i - 1)

FirstMatchTakesLast(ns, current_node, input) ==
    LastMatchFrom(ns, ns[current_node].next, input, Len(ns[current_node].next))

FirstMatch(ns, current_node, input) ==
    FirstMatchFrom(ns, ns[current_node].next, input, 1)

\* Whether some path from node n, through satisfied children in any order of
\* trial, empties the cursor on a node that carries a handler: what a dispatch
\* that backtracks over siblings would find.
RECURSIVE BacktrackSucceeds(_, _, _)
BacktrackSucceeds(ns, n, input) ==
    IF InputEmpty(input) THEN ns[n].exec # NoExec
    ELSE \E i \in 1..Len(ns[n].next) :
             LET m == Satisfies(ns[ns[n].next[i]].kind, input)
             IN  m.ok /\ BacktrackSucceeds(ns, ns[n].next[i], m.input)

RECURSIVE DispatchLoopBacktracks(_, _, _, _)
DispatchLoopBacktracks(ns, current_node, input, steps) ==
    IF InputEmpty(input)
    THEN [node |-> current_node, input |-> input, steps |-> steps, matched |-> TRUE]
    ELSE LET children == ns[current_node].next
             good == {i \in 1..Len(children) :
                          LET g == Satisfies(ns[children[i]].kind, input)
                          IN  g.ok /\ BacktrackSucceeds(ns, children[i], g.input)}
             first == FirstMatch(ns, current_node, input)
             m == IF good = {} THEN first
                  ELSE LET i == CHOOSE x \in good : \A y \in good : x <= y
                       IN  [found |-> TRUE, pos |-> i, next |-> children[i],
                            input |-> Satisfies(ns[children[i]].kind, input).input]
             step == [node |-> current_node, input |-> input, found |-> m.found,
                      pos |-> m.pos, next |-> m.next, next_input |-> m.input]
         IN  IF m.found
             THEN DispatchLoopBacktracks(ns, m.next, m.input, Append(steps, step))
             ELSE [node |-> current_node, input |-> input,
                   steps |-> Append(steps, step), matched |-> FALSE]

\* while !input.empty() { .. }: the walk from current_node; steps lists, per
\* iteration, the node, the cursor, and the child committed to (if any).
RECURSIVE DispatchLoopBreaksOnNoMatch(_, _, _, _)
DispatchLoopBreaksOnNoMatch(ns, current_node, input, steps) ==
    IF InputEmpty(input)
    THEN [node |-> current_node, input |-> input, steps |-> steps, matched |-> TRUE]
    ELSE LET m == FirstMatch(ns, current_node, input)
             step == [node |-> current_node, input |-> input, found |-> m.found,
                      pos |-> m.pos, next |-> m.next, next_input |-> m.input]
         IN  IF m.found
             THEN DispatchLoopBreaksOnNoMatch(ns, m.next, m.input, Append(steps, step))
             ELSE [node |-> current_node, input |-> input,
                   steps |-> Append(steps, step), matched |-> TRUE]

RECURSIVE DispatchLoop(_, _, _, _)
DispatchLoop(ns, current_node, input, steps) ==
    IF InputEmpty(input)
    THEN [node |-> current_node, input |-> input, steps |-> steps, matched |-> TRUE]
    ELSE LET m == FirstMatch(ns, current_node, input)
             step == [node |-> current_node, input |-> input, found |-> m.found,
                      pos |-> m.pos, next |-> m.next, next_input |-> m.input]
         IN  IF m.found
             THEN DispatchLoop(ns, m.next, m.input, Append(steps, step))
             ELSE [node |-> current_node, input |-> input,
                   steps |-> Append(steps, step), matched |-> FALSE]

\* The tail of dispatch: run the handler of the node reached, if the loop ended
\* on an empty cursor and the node carries one.
FinishRunsOnNoMatch(ns, walk, command) ==
    IF ns[walk.node].exec # NoExec
    THEN [ret |-> walk.matched, invoked |-> <<[exec |-> ns[walk.node].exec, text |-> command]>>]
    ELSE [ret |-> FALSE, invoked |-> << >>]

Finish(ns, walk, command) ==
    IF ~walk.matched THEN [ret |-> FALSE, invoked |-> << >>]
    ELSE IF ns[walk.node].exec # NoExec
         THEN [ret |-> TRUE,
               invoked |-> <<[exec |-> ns[walk.node].exec, text |-> command]>>]
         ELSE [ret |-> FALSE, invoked |-> << >>]

DispatchOp(ns, rt, command) ==
    LET walk == DispatchLoop(ns, rt, InputNew(command), << >>)
        fin == Finish(ns, walk, command)
    IN  [command |-> command, ret |-> fin.ret, invoked |-> fin.invoked,
         node |-> walk.node, input |-> walk.input, steps |-> walk.steps,
         matched |-> walk.matched, made |-> TRUE]

NoDispatch ==
    [command |-> EmptyText, ret |-> FALSE, invoked |-> << >>, node |-> 0,
     input |-> EmptyText, steps |-> << >>, matched |-> FALSE, made |-> FALSE]

(***************************************************************************)
(* Exec: src/src/command/exec.rs.                                          *)
(***************************************************************************)
\* The inner parsers P handed to Exec (ParserBase::parse on the caller's cursor):
\* "word" extracts the next token, "int" a token of digits, "rest" all the text
\* that remains. A parser need not restore the cursor when it fails: "int"
\* reads the token before it rejects it, "word" fails only on an empty token.
ParserParse(parser, input) ==
    LET tok == InputHead(input, SP)
    IN  CASE parser = "word" ->
                 IF Len(tok) > 0
                 THEN [some |-> TRUE, extracted |-> tok, input |-> InputAdvance(input, SP)]
                 ELSE [some |-> FALSE, extracted |-> << >>, input |-> input]
          [] parser = "int" ->
                 IF Len(tok) > 0 /\ \A i \in 1..Len(tok) : tok[i] \in Digits
                 THEN [some |-> TRUE, extracted |-> tok, input |-> InputAdvance(input, SP)]
                 ELSE [some |-> FALSE, extracted |-> << >>,
                       input |-> InputAdvance(input, SP)]
          [] parser = "rest" ->
                 [some |-> TRUE, extracted |-> input, input |-> EmptyText]

Parsers == {"word", "int", "rest"}
ExecHandlers == {"f_one", "f_two"}

\* Input::is_empty()
InputIsEmpty(input) == Len(input) = 0

\* Exec::parse: the inner parse, then Some(Command) only on an empty cursor.
ExecParseIgnoresRest(exec, input) ==
    LET ex == ParserParse(exec.parser, input)
    IN  IF ~ex.some
        THEN [some |-> FALSE, extracted |-> << >>, command |-> NoExec, input |-> ex.input]
        ELSE [some |-> TRUE, extracted |-> ex.extracted, command |-> exec.command,
              input |-> ex.input]

ExecParse(exec, input) ==
    LET ex == ParserParse(exec.parser, input)
    IN  IF ~ex.some
        THEN [some |-> FALSE, extracted |-> << >>, command |-> NoExec, input |-> ex.input]
        ELSE IF InputIsEmpty(ex.input)
             THEN [some |-> TRUE, extracted |-> ex.extracted, command |-> exec.command,
                   input |-> ex.input]
             ELSE [some |-> FALSE, extracted |-> << >>, command |-> NoExec,
                   input |-> ex.input]

\* Command::call: the handler invocations it makes, appended to those made so far.
CommandCall(calls, cmd) ==
    Append(calls, [command |-> cmd.command, extracted |-> cmd.extracted])

(***************************************************************************)
(* Or: src/src/command/or.rs.                                              *)
(***************************************************************************)
\* Or::parse: the first parser on a clone of the cursor; only if it fails, the
\* second on the caller's cursor. ran lists the parsers run, in order.
OrParseSharesCursor(or, input) ==
    LET first == ParserParse(or.first, input)
    IN  IF first.some
        THEN [some |-> TRUE, side |-> "A", value |-> first.extracted,
              input |-> first.input, ran |-> <<or.first>>]
        ELSE LET second == ParserParse(or.second, first.input)
             IN  [some |-> second.some, side |-> IF second.some THEN "B" ELSE "none",
                  value |-> second.extracted, input |-> second.input,
                  ran |-> <<or.first, or.second>>]

OrParse(or, input) ==
    LET clone == input
        first == ParserParse(or.first, clone)
    IN  IF first.some
        THEN [some |-> TRUE, side |-> "A", value |-> first.extracted,
              input |-> input, ran |-> <<or.first>>]
        ELSE LET second == ParserParse(or.second, input)
             IN  [some |-> second.some, side |-> IF second.some THEN "B" ELSE "none",
                  value |-> second.extracted, input |-> second.input,
                  ran |-> <<or.first, or.second>>]

NoOr ==
    [first |-> "none", second |-> "none", before |-> EmptyText, some |-> FALSE,
     side |-> "none", value |-> << >>, input |-> EmptyText, ran |-> << >>,
     made |-> FALSE]

(***************************************************************************)
(* The dispatcher as a state machine.                                      *)
(***************************************************************************)
\* CommandDispatcher::new()
NewDispatcher ==
    LET ins == SlabInsert(<< >>, NodeDefault)
    IN  [nodes |-> ins.nodes, root |-> ins.key, metas |-> << >>]

NoExecIn == [parser |-> "none", command |-> NoExec, input |-> EmptyText]
NoExecOut ==
    [some |-> FALSE, extracted |-> << >>, command |-> NoExec, input |-> EmptyText,
     made |-> FALSE, called |-> FALSE, callsBefore |-> 0]

Init ==
    /\ nodes = NewDispatcher.nodes
    /\ root = NewDispatcher.root
    /\ metas = NewDispatcher.metas
    /\ regLog = << >>
    /\ lastDispatch = NoDispatch
    /\ exIn = NoExecIn
    /\ exOut = NoExecOut
    /\ exCalls = << >>
    /\ orOut = NoOr

Register(command) ==
    /\ Len(regLog) < MaxRegs
    /\ LET r == RegisterOp(nodes, root, metas, command)
       IN  /\ nodes' = r.nodes
           /\ metas' = r.metas
           /\ regLog' = Append(regLog, [command |-> command, res |-> r.res])
    /\ lastDispatch' = NoDispatch
    /\ UNCHANGED <<root, execVars, orVars>>

Dispatch(command) ==
    /\ lastDispatch' = DispatchOp(nodes, root, command)
    /\ UNCHANGED <<nodes, root, metas, regLog, execVars, orVars>>

Next ==
    \/ \E command \in Commands : Register(command)
    \/ \E command \in Texts : Dispatch(command)

Spec == Init /\ [][Next]_vars

(***************************************************************************)
(* Exec as a state machine: parse a text, then call the Command it gave.   *)
(***************************************************************************)
DoExecParse(parser, command, input) ==
    /\ Len(exCalls) < MaxCalls
    /\ exIn' = [parser |-> parser, command |-> command, input |-> input]
    /\ LET r == ExecParse([parser |-> parser, command |-> command], input)
       IN  exOut' = [some |-> r.some, extracted |-> r.extracted, command |-> r.command,
                     input |-> r.input, made |-> TRUE, called |-> FALSE,
                     callsBefore |-> Len(exCalls)]
    /\ UNCHANGED <<dispVars, exCalls, orVars>>

\* call(self, ctx) consumes the Command: one call per Command value.
DoCommandCall ==
    /\ exOut.made /\ exOut.some /\ ~exOut.called
    /\ exCalls' = CommandCall(exCalls, exOut)
    /\ exOut' = [exOut EXCEPT !.called = TRUE]
    /\ UNCHANGED <<dispVars, exIn, orVars>>

NextExec ==
    \/ \E parser \in Parsers, command \in ExecHandlers, input \in Texts :
           DoExecParse(parser, command, input)
    \/ DoCommandCall

SpecExec == Init /\ [][NextExec]_vars

(***************************************************************************)
(* Helpers for stating the claims.                                         *)
(***************************************************************************)
\* The dispatcher obtained from a fresh one by registering commands in order.
RECURSIVE Replay(_, _)
Replay(d, commands) ==
    IF Len(commands) = 0 THEN d
    ELSE LET r == RegisterOp(d.nodes, d.root, d.metas, Head(commands))
         IN  Replay([nodes |-> r.nodes, root |-> d.root, metas |-> r.metas],
                    Tail(commands))

\* The register calls made so far are exactly these commands, in this order.
RegisteredExactly(commands) ==
    /\ Len(regLog) = Len(commands)
    /\ \A i \in 1..Len(commands) : regLog[i].command = commands[i]

Invoked(exec, text) == <<[exec |-> exec, text |-> text]>>

\* The two ways a builder can place the handler of a chain (see Chain, ChainOnLast).
TpEncodings ==
    { <<cmd_tp_player_dest, cmd_tp_here>>, <<cmd_tp_player_dest_last, cmd_tp_here_last>> }

\* No child of node n is satisfied by input.
NoChildSatisfied(ns, n, input) ==
    \A i \in 1..Len(ns[n].next) : ~Satisfies(ns[ns[n].next[i]].kind, input).ok

\* The number of nodes of a command tree, and of a sequence of trees.
RECURSIVE TreeSize(_)
RECURSIVE ForestSize(_)
TreeSize(t) == 1 + ForestSize(t.next)
ForestSize(ts) == IF Len(ts) = 0 THEN 0 ELSE TreeSize(Head(ts)) + ForestSize(Tail(ts))

\* The first n nodes (n >= 1) of a command tree in depth-first declaration
\* order, as a tree: what of the command comes before its node n + 1.
RECURSIVE Truncate(_, _)
RECURSIVE TruncateForest(_, _)
Truncate(t, n) == [t EXCEPT !.next = TruncateForest(t.next, n - 1)]
TruncateForest(ts, n) ==
    IF Len(ts) = 0 \/ n <= 0 THEN << >>
    ELSE <<Truncate(Head(ts), n)>> \o TruncateForest(Tail(ts), n - TreeSize(Head(ts)))

\* The longest path, in edges, from node n down the arena.
RECURSIVE Depth(_, _)
Depth(ns, n) ==
    IF Len(ns[n].next) = 0 THEN 0
    ELSE LET below == {Depth(ns, ns[n].next[i]) : i \in 1..Len(ns[n].next)}
         IN  1 + CHOOSE d \in below : \A e \in below : e <= d

\* How many times key c occurs in the children lists of the arena.
ParentCount(ns, c) ==
    Cardinality({<<k, i>> \in (DOMAIN ns) \X (1..Cardinality(DOMAIN ns)) :
                     i <= Len(ns[k].next) /\ ns[k].next[i] = c})

\* This step is a register call.
RegisterStep == Len(regLog') = Len(regLog) + 1

(***************************************************************************)
(* Claims.                                                                 *)
(***************************************************************************)

\* C1: on a fresh dispatcher with "tp <player> <destination>" registered first
\* and "tp here" second, dispatch("tp here") returns true and runs the handler
\* of "tp here", dispatch("tp Steve spawn") returns true and runs the handler of
\* the first command, and dispatch("tp") returns false and runs no handler.
C1_TpEndToEnd ==
    \A enc \in TpEncodings :
        (RegisteredExactly(enc) /\ lastDispatch.made) =>
            /\ lastDispatch.command = t_tp_here =>
                   /\ lastDispatch.ret
                   /\ lastDispatch.invoked = Invoked("h_tp_here", t_tp_here)
            /\ lastDispatch.command = t_tp_Steve_spawn =>
                   /\ lastDispatch.ret
                   /\ lastDispatch.invoked = Invoked("h_tp_player_dest", t_tp_Steve_spawn)
            /\ lastDispatch.command = s_tp =>
                   /\ ~lastDispatch.ret
                   /\ lastDispatch.invoked = << >>

\* C2: on a fresh dispatcher, registering two commands whose whole grammar is
\* the literal "foo" with a handler gives Ok, then OverlappingCommands, and
\* afterwards dispatch("foo") returns true and runs the first command's handler.
C2_OverlapKeepsFirst ==
    RegisteredExactly(<<cmd_foo_1, cmd_foo_2>>) =>
        /\ regLog[1].res = Ok
        /\ regLog[2].res = OverlappingCommands
        /\ (lastDispatch.made /\ lastDispatch.command = s_foo) =>
               /\ lastDispatch.ret
               /\ lastDispatch.invoked = Invoked("h_foo_1", s_foo)

\* C3: dispatch returns true iff exactly one handler ran, once, during the
\* call; that handler is the one of the node at which the cursor became empty
\* and it is given the whole command text; on false no handler ran.
C3_TrueIffOneHandlerRan ==
    lastDispatch.made =>
        LET d == lastDispatch
            n == Len(d.steps)
            \* where the walk stood when the cursor was empty, if it ever was
            emptyAt == IF n = 0 THEN root ELSE d.steps[n].next
            becameEmpty == IF n = 0 THEN InputEmpty(d.command)
                           ELSE d.steps[n].found /\ InputEmpty(d.steps[n].next_input)
        IN  /\ d.ret <=> Len(d.invoked) = 1
            /\ ~d.ret => d.invoked = << >>
            /\ d.ret =>
                   /\ becameEmpty
                   /\ nodes[emptyAt].exec # NoExec
                   /\ d.invoked = Invoked(nodes[emptyAt].exec, d.command)

C3_Witness ==
    /\ lastDispatch.made
    /\ lastDispatch.ret
    /\ Len(lastDispatch.steps) >= 2

\* C4: dispatch never runs a handler while unconsumed input remains: when no
\* child of the current node is satisfied by the remaining non-empty input,
\* dispatch returns false and runs nothing, even if the current node has a
\* handler ("foo" does not run on "foo bar" when nothing consumes "bar").
C4_NoHandlerWithInputLeft ==
    lastDispatch.made =>
        LET d == lastDispatch
        IN  /\ d.invoked # << >> => InputEmpty(d.input)
            /\ \A i \in 1..Len(d.steps) :
                   (~InputEmpty(d.steps[i].input)
                    /\ NoChildSatisfied(nodes, d.steps[i].node, d.steps[i].input)) =>
                       /\ i = Len(d.steps)
                       /\ ~d.ret
                       /\ d.invoked = << >>
            /\ (~InputEmpty(d.input)) =>
                   /\ NoChildSatisfied(nodes, d.node, d.input)
                   /\ ~d.ret
                   /\ d.invoked = << >>

C4_Witness ==
    /\ RegisteredExactly(<<cmd_foo_1>>)
    /\ lastDispatch.made
    /\ lastDispatch.command = t_foo_bar
    /\ nodes[lastDispatch.node].exec = "h_foo_1"
    /\ ~InputEmpty(lastDispatch.input)
    /\ ~lastDispatch.ret

\* C5: register returns ExecutableRoot whenever the root node of the command's
\* tree carries a handler, whatever was registered before.
C5_ExecutableRoot ==
    \A i \in 1..Len(regLog) :
        regLog[i].command.tree.exec # NoExec => regLog[i].res = ExecutableRoot

C5_Witness ==
    /\ Len(regLog) = 2
    /\ regLog[1].res = Ok
    /\ regLog[2].command.tree.exec # NoExec
    /\ regLog[2].res = ExecutableRoot

\* C6: after any sequence of register calls, command_meta() has as many
\* entries as register calls returned Ok.
C6_MetaCountsOkRegisters ==
    Len(CommandMeta(metas)) = Cardinality({i \in 1..Len(regLog) : regLog[i].res = Ok})

\* C7: a register call that returns an error leaves no trace: every later
\* register call returns the same result, and every later dispatch returns the
\* same boolean and runs the same handler, as if the failed call had not been made.
C7_FailedRegisterLeavesNoTrace ==
    LET okOnly == SelectSeq(regLog, LAMBDA e : e.res = Ok)
        without == Replay(NewDispatcher, [i \in 1..Len(okOnly) |-> okOnly[i].command])
    IN  /\ \A c \in Commands :
               RegisterOp(nodes, root, metas, c).res
                   = RegisterOp(without.nodes, without.root, without.metas, c).res
        /\ \A t \in Texts :
               LET here == DispatchOp(nodes, root, t)
                   there == DispatchOp(without.nodes, without.root, t)
               IN  here.ret = there.ret /\ here.invoked = there.invoked

\* C8: after registering the literal chains "foo bar" and "foo baz" on a fresh
\* dispatcher, the arena has exactly one Literal("foo") node, a child of Root,
\* with exactly the two children Literal("bar") and Literal("baz").
C8_SharedPrefix ==
    \A chains \in { <<cmd_foo_bar, cmd_foo_baz>>, <<cmd_chain_foo_bar, cmd_chain_foo_baz>> } :
        RegisteredExactly(chains) =>
            LET foos == {k \in DOMAIN nodes : nodes[k].kind = Literal(s_foo)}
            IN  /\ Cardinality(foos) = 1
                /\ \A k \in foos :
                       /\ nodes[root].next = <<k>>
                       /\ Len(nodes[k].next) = 2
                       /\ nodes[k].next[1] # nodes[k].next[2]
                       /\ nodes[nodes[k].next[1]].kind = Literal(s_bar)
                       /\ nodes[nodes[k].next[2]].kind = Literal(s_baz)

C8_Witness ==
    /\ RegisteredExactly(<<cmd_foo_bar, cmd_foo_baz>>)
    /\ regLog[1].res = Ok
    /\ regLog[2].res = Ok
    /\ Cardinality(DOMAIN nodes) = 6

\* C9: at every step of dispatch, when several children of the current node
\* are satisfied by the remaining input, dispatch commits to the one inserted
\* earliest (a Literal "123" inserted before a Parser accepting "123" wins on
\* input "123"); the children after the first match are not committed.
C9_FirstMatchCommits ==
    lastDispatch.made =>
        LET d == lastDispatch
        IN  /\ \A i \in 1..Len(d.steps) :
                   LET st == d.steps[i]
                       children == nodes[st.node].next
                   IN  st.found =>
                           /\ st.pos \in 1..Len(children)
                           /\ st.next = children[st.pos]
                           /\ Satisfies(nodes[st.next].kind, st.input).ok
                           /\ \A j \in 1..(st.pos - 1) :
                                  ~Satisfies(nodes[children[j]].kind, st.input).ok
                           /\ i < Len(d.steps) => d.steps[i + 1].node = st.next
                           /\ i = Len(d.steps) => d.node = st.next
            /\ (RegisteredExactly(<<cmd_lit_123, cmd_int>>) /\ d.command = s_123) =>
                   nodes[d.steps[1].next].kind = Literal(s_123)

C9_Witness ==
    /\ RegisteredExactly(<<cmd_lit_123, cmd_int>>)
    /\ lastDispatch.made
    /\ lastDispatch.command = s_123
    /\ LET st == lastDispatch.steps[1]
           children == nodes[st.node].next
       IN  /\ st.found
           /\ st.pos = 1
           /\ Cardinality({j \in 1..Len(children) :
                               Satisfies(nodes[children[j]].kind, st.input).ok}) = 2

\* C10: Exec.parse returns a Command iff the inner parser succeeds and the
\* cursor is empty after the inner parse (input left over gives None), and
\* Command::call runs the bound handler exactly once with the extracted value.
C10_ExecNeedsEmptyCursor ==
    exOut.made =>
        LET inner == ParserParse(exIn.parser, exIn.input)
        IN  /\ exOut.some <=> (inner.some /\ Len(inner.input) = 0)
            /\ (inner.some /\ Len(inner.input) > 0) => ~exOut.some
            /\ exOut.some =>
                   /\ exOut.extracted = inner.extracted
                   /\ exOut.command = exIn.command
            /\ Len(exCalls) = exOut.callsBefore + (IF exOut.called THEN 1 ELSE 0)
            /\ exOut.called =>
                   exCalls[Len(exCalls)]
                       = [command |-> exIn.command, extracted |-> inner.extracted]

\* A Command was called, and a later parse whose inner parser succeeded with
\* input left over returned None.
C10_Witness ==
    /\ Len(exCalls) >= 1
    /\ exOut.made
    /\ ~exOut.some
    /\ exIn.parser = "word"
    /\ ParserParse(exIn.parser, exIn.input).some
    /\ Len(ParserParse(exIn.parser, exIn.input).input) > 0

\* C11: in every state reachable by register calls (successful or failed,
\* including a tree with two sub-trees of equal kind under one node), no two
\* children of the same arena node have equal kind.
C11_SiblingsKindUnique ==
    \A k \in DOMAIN nodes :
        \A i, j \in 1..Len(nodes[k].next) :
            i # j => nodes[nodes[k].next[i]].kind # nodes[nodes[k].next[j]].kind

C11_Witness ==
    /\ \E i \in 1..Len(regLog) : regLog[i].command = cmd_same_kind /\ regLog[i].res = Ok
    /\ \E i \in 1..Len(regLog) : regLog[i].res # Ok
    /\ \E k \in DOMAIN nodes :
           /\ nodes[k].kind = Parser("word")
           /\ nodes[k].exec = "h_same"

\* C12: in every reachable state exactly one arena node has kind Root, it is
\* the node dispatch starts from, no children list contains it, and it carries
\* no handler.
C12_OneRoot ==
    /\ {k \in DOMAIN nodes : nodes[k].kind = RootKind} = {root}
    /\ \A k \in DOMAIN nodes : \A i \in 1..Len(nodes[k].next) : nodes[k].next[i] # root
    /\ nodes[root].exec = NoExec
    /\ (lastDispatch.made /\ Len(lastDispatch.steps) > 0) =>
           lastDispatch.steps[1].node = root
    /\ (lastDispatch.made /\ Len(lastDispatch.steps) = 0) => lastDispatch.node = root

C12_Witness ==
    /\ \E i \in 1..Len(regLog) : regLog[i].res = ExecutableRoot
    /\ \E i \in 1..Len(regLog) : regLog[i].res = Ok
    /\ lastDispatch.made
    /\ Len(lastDispatch.steps) >= 2

\* C13: a node's handler is set at most once: once an arena node carries a
\* handler no later register call, successful or failed, replaces or removes
\* it, and an attempt to attach a second handler to it returns
\* OverlappingCommands and leaves the first in place.
C13_HandlerSetOnce ==
    [][ /\ \A k \in DOMAIN nodes :
               nodes[k].exec # NoExec =>
                   (k \in DOMAIN nodes' /\ nodes'[k].exec = nodes[k].exec)
        /\ \A c \in Commands :
               \* a one-handler chain whose handler lands on a node that has one
               (/\ Len(regLog') = Len(regLog) + 1
                /\ regLog'[Len(regLog')].command = c
                /\ c \in {cmd_foo_2, cmd_word}
                /\ \E k \in DOMAIN nodes :
                       /\ nodes[k].kind = c.tree.kind
                       /\ k \in {nodes[root].next[i] : i \in 1..Len(nodes[root].next)}
                       /\ nodes[k].exec # NoExec) =>
                   regLog'[Len(regLog')].res = OverlappingCommands
      ]_vars

C13_Witness ==
    /\ Len(regLog) = 2
    /\ regLog[1].command = cmd_word /\ regLog[1].res = Ok
    /\ regLog[2].command = cmd_word_twice /\ regLog[2].res = OverlappingCommands
    /\ \E k \in DOMAIN nodes : nodes[k].exec = "h_word"

\* C14: register stops at the first error met in depth-first, declaration
\* order: nothing of the command from the failing node on is merged, and every
\* node created and handler attached before the failing node stays (no
\* rollback). So a failed register leaves the arena that registering the part
\* of the tree before the failing node leaves, and that part registers Ok.
C14_StopsAtFirstError ==
    [][ (RegisterStep /\ regLog'[Len(regLog')].res # Ok) =>
            LET tree == regLog'[Len(regLog')].command.tree
                res == regLog'[Len(regLog')].res
            IN  \E f \in 1..TreeSize(tree) :
                    /\ AppendNode(nodes, root, Truncate(tree, f)).res = res
                    /\ f = 1 => nodes' = nodes
                    /\ f > 1 =>
                           LET before == AppendNode(nodes, root, Truncate(tree, f - 1))
                           IN  before.res = Ok /\ before.nodes = nodes'
      ]_vars

\* The failed register of cmd_three: the node and handler of its first sub-tree
\* stay, its third sub-tree (after the failing second) is not merged.
C14_Witness ==
    /\ Len(regLog) = 2
    /\ regLog[1].res = Ok
    /\ regLog[2].command = cmd_three
    /\ regLog[2].res = OverlappingCommands
    /\ \E k \in DOMAIN nodes :
           /\ nodes[k].kind = Parser("int")
           /\ nodes[k].exec = "h_three_1"
           /\ Len(nodes[k].next) = 1
           /\ nodes[nodes[k].next[1]].kind = Literal(s_foo)

\* C15: the arena is append-only: over any register or dispatch call no node
\* key disappears or is reused, an existing node keeps its kind, an existing
\* children list only gains entries at its end, and dispatch changes neither
\* the arena nor the metadata list.
C15_ArenaAppendOnly ==
    [][ /\ root' = root
        /\ DOMAIN nodes \subseteq DOMAIN nodes'
        /\ \A k \in DOMAIN nodes :
               /\ nodes'[k].kind = nodes[k].kind
               /\ Len(nodes'[k].next) >= Len(nodes[k].next)
               /\ SubSeq(nodes'[k].next, 1, Len(nodes[k].next)) = nodes[k].next
               /\ \A i \in (Len(nodes[k].next) + 1)..Len(nodes'[k].next) :
                      nodes'[k].next[i] \notin DOMAIN nodes
        /\ ~RegisterStep => (nodes' = nodes /\ metas' = metas)
      ]_vars

\* A second register has added a child after an existing one, and a dispatch ran.
C15_Witness ==
    /\ Len(regLog) = 2
    /\ \E k \in DOMAIN nodes : k # root /\ Len(nodes[k].next) = 2
    /\ lastDispatch.made
    /\ lastDispatch.ret

\* C16: dispatch never backtracks over a committed child: the walk only moves
\* down from the first satisfied child, and when a later step finds no
\* satisfied child, or the input ends on a node without a handler, dispatch
\* returns false and runs nothing, even if a later-inserted sibling of a
\* committed child is satisfied by the same input and leads to a handler.
C16_NoBacktracking ==
    lastDispatch.made =>
        LET d == lastDispatch
            n == Len(d.steps)
        IN  /\ \A i \in 1..n :
                   LET st == d.steps[i]
                   IN  /\ st.found =>
                              \A j \in 1..(st.pos - 1) :
                                  ~Satisfies(nodes[nodes[st.node].next[j]].kind, st.input).ok
                       /\ i < n =>
                              /\ st.found
                              /\ d.steps[i + 1].node = st.next
                              /\ d.steps[i + 1].input = st.next_input
            /\ ((n > 0 /\ ~d.steps[n].found)
                \/ (InputEmpty(d.input) /\ nodes[d.node].exec = NoExec)) =>
                   /\ ~d.ret
                   /\ d.invoked = << >>

\* dispatch("123") with Literal "123" inserted before the int Parser: the walk
\* commits to the Literal and fails below it; the Parser sibling leads to a handler.
C16_Witness ==
    /\ RegisteredExactly(<<cmd_lit_123, cmd_int>>)
    /\ lastDispatch.made
    /\ lastDispatch.command = s_123
    /\ Len(lastDispatch.steps) >= 2
    /\ ~lastDispatch.ret
    /\ lastDispatch.invoked = << >>
    /\ BacktrackSucceeds(nodes, root, s_123)

\* C18: committing to a Literal child does not advance the cursor: the working
\* cursor after the commit holds the same text as before the match, so only a
\* Parser child's checker reduces the remaining input.
C18_LiteralKeepsCursor ==
    lastDispatch.made =>
        \A i \in 1..Len(lastDispatch.steps) :
            LET st == lastDispatch.steps[i]
            IN  st.found =>
                    /\ nodes[st.next].kind.t = "Literal" => st.next_input = st.input
                    /\ st.next_input # st.input => nodes[st.next].kind.t = "Parser"

C18_Witness ==
    /\ lastDispatch.made
    /\ Len(lastDispatch.steps) >= 2
    /\ LET s1 == lastDispatch.steps[1]
           s2 == lastDispatch.steps[2]
       IN  /\ s1.found /\ nodes[s1.next].kind = Literal(s_tp) /\ s1.next_input = s1.input
           /\ s2.found /\ nodes[s2.next].kind.t = "Parser"
           /\ Len(s2.next_input) < Len(s2.input)

\* C19: dispatch terminates on every reachable arena and text, even when a
\* matching child consumes no input: each iteration returns false or moves to
\* a child of the current node, and the arena is a finite tree in which every
\* non-Root node is a child of exactly one node, so the moves are bounded by
\* the depth of the tree (the iterations by the depth plus the failing one).
C19_DispatchTerminates ==
    /\ \A k \in DOMAIN nodes :
           /\ ParentCount(nodes, k) = (IF k = root THEN 0 ELSE 1)
           /\ \A i \in 1..Len(nodes[k].next) :
                  nodes[k].next[i] \in DOMAIN nodes /\ nodes[k].next[i] > k
    /\ lastDispatch.made =>
           LET d == lastDispatch
               n == Len(d.steps)
               moves == Cardinality({i \in 1..n : d.steps[i].found})
           IN  /\ \A i \in 1..n :
                      /\ d.steps[i].found =>
                             \E j \in 1..Len(nodes[d.steps[i].node].next) :
                                 nodes[d.steps[i].node].next[j] = d.steps[i].next
                      /\ ~d.steps[i].found => (i = n /\ ~d.ret)
               /\ moves <= Depth(nodes, root)
               /\ n <= Depth(nodes, root) + 1

\* A walk that committed to a child without consuming input and still ended.
C19_Witness ==
    /\ lastDispatch.made
    /\ Len(lastDispatch.steps) = Depth(nodes, root) + 1
    /\ Len(lastDispatch.steps) >= 3
    /\ lastDispatch.steps[1].found
    /\ lastDispatch.steps[1].next_input = lastDispatch.steps[1].input

\* C20: a successful dispatch is stable under later registrations: if
\* dispatch(text) returns true and runs handler h, then after any further
\* register call, Ok or failed, it still returns true and runs h.
C20_DispatchStable ==
    [][ RegisterStep =>
            \A t \in Texts :
                LET before == DispatchOp(nodes, root, t)
                    after == DispatchOp(nodes', root', t)
                IN  before.ret => (after.ret /\ after.invoked = before.invoked)
      ]_vars

\* "123" still runs the handler of "<word>" after a later register failed
\* half-way, leaving an int Parser sibling that "123" satisfies too.
C20_Witness ==
    /\ Len(regLog) = 2
    /\ regLog[1].command = cmd_word /\ regLog[1].res = Ok
    /\ regLog[2].command = cmd_three /\ regLog[2].res = OverlappingCommands
    /\ Len(nodes[root].next) = 2
    /\ Satisfies(nodes[nodes[root].next[2]].kind, s_123).ok
    /\ lastDispatch.made
    /\ lastDispatch.command = s_123
    /\ lastDispatch.ret
    /\ lastDispatch.invoked = Invoked("h_word", s_123)

(***************************************************************************)
(* Or as a state machine: parse a text, or go on from the cursor left.     *)
(***************************************************************************)
OrResult(first, second, input) ==
    LET r == OrParse([first |-> first, second |-> second], input)
    IN  [first |-> first, second |-> second, before |-> input, some |-> r.some,
         side |-> r.side, value |-> r.value, input |-> r.input, ran |-> r.ran,
         made |-> TRUE]

DoOrParse(first, second, input) ==
    /\ orOut' = OrResult(first, second, input)
    /\ UNCHANGED <<dispVars, execVars>>

\* The caller parses on with the cursor the last call left.
DoOrParseOn(first, second) ==
    /\ orOut.made
    /\ ~InputIsEmpty(orOut.input)
    /\ orOut' = OrResult(first, second, orOut.input)
    /\ UNCHANGED <<dispVars, execVars>>

NextOr ==
    \/ \E first \in Parsers, second \in Parsers, input \in Texts :
           DoOrParse(first, second, input)
    \/ \E first \in Parsers, second \in Parsers : DoOrParseOn(first, second)

SpecOr == Init /\ [][NextOr]_vars

\* C17: Or.parse is an ordered alternative with an asymmetric cursor effect:
\* if the first parser succeeds the result is Either::A and the caller's cursor
\* is left as it was; if it fails, the second runs on the caller's cursor in
\* its pre-call state and on success gives Either::B with the cursor advanced
\* by the second; the second never runs when the first succeeds; if both fail
\* the result is None.
C17_OrAsymmetric ==
    orOut.made =>
        LET f == ParserParse(orOut.first, orOut.before)
            g == ParserParse(orOut.second, orOut.before)
        IN  /\ f.some =>
                   /\ orOut.some /\ orOut.side = "A"
                   /\ orOut.value = f.extracted
                   /\ orOut.input = orOut.before
                   /\ orOut.ran = <<orOut.first>>
            /\ (~f.some /\ g.some) =>
                   /\ orOut.some /\ orOut.side = "B"
                   /\ orOut.value = g.extracted
                   /\ orOut.input = g.input
                   /\ orOut.ran = <<orOut.first, orOut.second>>
            /\ (~f.some /\ ~g.some) => (~orOut.some /\ orOut.side = "none")

\* The first parser failed after reading a token, and the second succeeded on
\* the cursor as it was before the call.
C17_Witness ==
    /\ orOut.made
    /\ orOut.first = "int"
    /\ orOut.second = "word"
    /\ orOut.side = "B"
    /\ ParserParse("int", orOut.before).input # orOut.before
    /\ orOut.value = InputHead(orOut.before, SP)
    /\ Len(orOut.input) > 0

====
